---- MODULE Spec2Model ----
(***************************************************************************)
(* The property graph of glTF-Transform: Property (properties/property.ts) *)
(* over the graph engine (GraphNode, Link, PropertyGraph).                 *)
(*                                                                         *)
(* Property.getExtension / setExtension / listExtensions / detach /        *)
(* listParents are translated from the source.  The graph engine they call *)
(* (link, disconnectParents, removeGraphChild, addGraphChild, dispose,     *)
(* listGraphParents) is not part of the source tree at hand and is         *)
(* modelled from sections 4.1, 4.2 and 7 of the specification.             *)
(***************************************************************************)
EXTENDS Integers, Sequences, FiniteSets, TLC

\* ------------------------------------------------------------------ bounds
\* Largest number of live links in the graph index, under Spec.
MaxLinks == 2

\* Largest number of live links in the graph index, under SpecShare.
MaxRefs == 3

\* Largest number of live links in the graph index, under SpecExt.
MaxExts == 3

\* ------------------------------------------------------------------ nodes
Null == "null"

\* One Root, two host properties, one shared resource, three extension
\* properties of this graph and one extension property of another graph.
Nodes == {"root", "m1", "m2", "t", "x1", "x2", "x3", "y"}

Hosts == {"m1", "m2"}
ExtNodes == {"x1", "x2", "x3", "y"}
Resources == {"m1", "m2", "t"}

\* Property.propertyType
propertyType == [n \in Nodes |->
    IF n = "root" THEN "Root"
    ELSE IF n \in Hosts THEN "Material"
    ELSE IF n = "t" THEN "Texture"
    ELSE "Extension"]

\* ExtensionProperty.extensionName ("" for a node that is no extension)
extensionName == [n \in Nodes |->
    IF n \in {"x1", "x2", "y"} THEN "A"
    ELSE IF n = "x3" THEN "B"
    ELSE ""]

\* ExtensionPropertyConstructor.EXTENSION_NAME of the lookup tokens
Ctors == {"A", "B"}

\* GraphNode.graph: the graph instance that owns the node
graphOf == [n \in Nodes |-> IF n = "y" THEN "g2" ELSE "g1"]

\* The graph instance whose operations are modelled.
ThisGraph == "g1"

\* ------------------------------------------------------------------ state
VARIABLES
    links,       \* PropertyGraph: the index of live links, in creation order
    extensions,  \* Property.extensions: per node, its extension links
    refs,        \* per node, the child list of its concrete resource type
    disposed,    \* GraphNode: the disposed flag of each node
    last,        \* the last call made: operation, arguments, outcome
    pre          \* the graph as it was when the last call began

vars == <<links, extensions, refs, disposed, last, pre>>

\* The graph as one value, so that the operations compose.
Cur == [links |-> links, extensions |-> extensions, refs |-> refs,
        disposed |-> disposed]

Range(s) == {s[i] : i \in 1..Len(s)}

\* ------------------------------------------------------------ graph engine
\* A Link object: (name, parent, child); k tells apart links that were
\* created separately between the same pair under the same name (links are
\* compared by identity).
NewLink(taken, name, parent, child) ==
    LET k == CHOOSE i \in 0..Cardinality(taken) :
                 /\ [name |-> name, parent |-> parent, child |-> child, k |-> i] \notin taken
                 /\ \A j \in 0..(i-1) :
                        [name |-> name, parent |-> parent, child |-> child, k |-> j] \in taken
    IN [name |-> name, parent |-> parent, child |-> child, k |-> k]

\* Link.dispose() for a set of links: each leaves the graph index and the
\* child list of its parent that holds it.
DisposeLinks(S, Ls) ==
    LET keep(l) == l \notin Ls
    IN [S EXCEPT !.links = SelectSeq(@, keep),
                 !.extensions = [n \in Nodes |-> SelectSeq(@[n], keep)],
                 !.refs = [n \in Nodes |-> SelectSeq(@[n], keep)]]

\* PropertyGraph.link(name, parent, child): rejected when either node is of
\* another graph or disposed; else a new link enters the index.
\* taken: the links that exist as objects when the call begins.
GraphLinkNoLiveCheck(S, taken, name, parent, child) ==
    IF graphOf[parent] # ThisGraph \/ graphOf[child] # ThisGraph
    THEN [err |-> "InvalidOperation", S |-> S, link |-> Null]
    ELSE LET l == NewLink(taken, name, parent, child)
         IN [err |-> "ok", S |-> [S EXCEPT !.links = Append(@, l)], link |-> l]

GraphLinkNoGraphCheck(S, taken, name, parent, child) ==
    IF S.disposed[parent] \/ S.disposed[child]
    THEN [err |-> "InvalidOperation", S |-> S, link |-> Null]
    ELSE LET l == NewLink(taken, name, parent, child)
         IN [err |-> "ok", S |-> [S EXCEPT !.links = Append(@, l)], link |-> l]

GraphLinkExclusive(S, taken, name, parent, child) ==
    IF \/ graphOf[parent] # ThisGraph \/ graphOf[child] # ThisGraph
       \/ S.disposed[parent] \/ S.disposed[child]
    THEN [err |-> "InvalidOperation", S |-> S, link |-> Null]
    ELSE LET l == NewLink(taken, name, parent, child)
             S1 == DisposeLinks(S, {x \in Range(S.links) :
                                       x.child = child /\ x.parent # parent})
         IN [err |-> "ok", S |-> [S1 EXCEPT !.links = Append(@, l)], link |-> l]

GraphLink(S, taken, name, parent, child) ==
    IF \/ graphOf[parent] # ThisGraph \/ graphOf[child] # ThisGraph
       \/ S.disposed[parent] \/ S.disposed[child]
    THEN [err |-> "InvalidOperation", S |-> S, link |-> Null]
    ELSE LET l == NewLink(taken, name, parent, child)
         IN [err |-> "ok", S |-> [S EXCEPT !.links = Append(@, l)], link |-> l]

\* GraphNode.addGraphChild(list, link): the link joins the parent's list.
addGraphChild(S, list, node, l) ==
    [S EXCEPT ![list][node] = Append(@, l)]

\* GraphNode.removeGraphChild(list, child): every link of the list that
\* points at child is disposed.
removeGraphChild(S, list, node, child) ==
    DisposeLinks(S, {l \in Range(S[list][node]) : l.child = child})

\* The outcome of a call: the error it raised, or "ok", and the graph it left.
Result(err, S) == [err |-> err, S |-> S]

\* Every link into node whose parent passes the predicate is disposed.
\* passing: the nodes for which the predicate is true.
unlinkParents(S, node, passing) ==
    DisposeLinks(S, {l \in Range(S.links) : l.child = node /\ l.parent \in passing})

\* PropertyGraph.disconnectParents(node, predicate): refused on a disposed
\* node.
disconnectParents(S, node, passing) ==
    IF S.disposed[node]
    THEN Result("InvalidState", S)
    ELSE Result("ok", unlinkParents(S, node, passing))

\* PropertyGraph.disconnectChildren(node): every link node owns is disposed.
disconnectChildren(S, node) ==
    DisposeLinks(S, {l \in Range(S.links) : l.parent = node})

\* PropertyGraph.listParents(node): distinct parents, in link-creation order
RECURSIVE Distinct(_)
Distinct(s) ==
    IF s = <<>> THEN <<>>
    ELSE LET r == Distinct(SubSeq(s, 1, Len(s) - 1))
             x == s[Len(s)]
         IN IF x \in Range(r) THEN r ELSE Append(r, x)

ParentSeq(S, node) ==
    LET hits == SelectSeq(S.links, LAMBDA l : l.child = node)
    IN [i \in 1..Len(hits) |-> hits[i].parent]

listGraphParents(S, node) == Distinct(ParentSeq(S, node))

\* GraphNode.dispose(): outgoing links, then incoming links, then the flag;
\* refused on a disposed node.
Always == Nodes

disposeKeepParents(S, node) ==
    IF S.disposed[node]
    THEN Result("InvalidState", S)
    ELSE Result("ok", [disconnectChildren(S, node) EXCEPT !.disposed[node] = TRUE])

dispose(S, node) ==
    IF S.disposed[node]
    THEN Result("InvalidState", S)
    ELSE LET S1 == disconnectChildren(S, node)
             S2 == unlinkParents(S1, node, Always)
         IN Result("ok", [S2 EXCEPT !.disposed[node] = TRUE])

\* ---------------------------------------------------------------- Property
\* Property.getExtension(ctor)
getExtension(S, host, ctor) ==
    LET name == ctor
        hits == SelectSeq(S.extensions[host],
                          LAMBDA l : extensionName[l.child] = name)
    IN IF hits # <<>> THEN Head(hits).child ELSE Null

\* Property.listExtensions()
listExtensions(S, host) ==
    [i \in 1..Len(S.extensions[host]) |-> S.extensions[host][i].child]

\* Property.setExtension(ctor, extensionProperty): the previous extension of
\* the token's name is removed first; a null value stops there; else the
\* value is linked under its own extensionName.  A rejected link leaves the
\* removal in place.
setExtensionNullThrows(S, host, ctor, ext) ==
    LET prevExtension == getExtension(S, host, ctor)
        S1 == IF prevExtension # Null
              THEN removeGraphChild(S, "extensions", host, prevExtension)
              ELSE S
    IN IF ext = Null
       THEN IF prevExtension = Null
            THEN Result("InvalidOperation", S)
            ELSE Result("ok", S1)
       ELSE LET r == GraphLink(S1, Range(S.links), extensionName[ext], host, ext)
            IN IF r.err # "ok"
               THEN Result(r.err, S1)
               ELSE Result("ok", addGraphChild(r.S, "extensions", host, r.link))

setExtensionDisposePrev(S, host, ctor, ext) ==
    LET prevExtension == getExtension(S, host, ctor)
        S1 == IF prevExtension # Null
              THEN dispose(S, prevExtension).S
              ELSE S
    IN IF ext = Null
       THEN Result("ok", S1)
       ELSE LET r == GraphLink(S1, Range(S.links), extensionName[ext], host, ext)
            IN IF r.err # "ok"
               THEN Result(r.err, S1)
               ELSE Result("ok", addGraphChild(r.S, "extensions", host, r.link))

setExtensionUnchecked(S, host, ctor, ext) ==
    LET prevExtension == getExtension(S, host, ctor)
        S1 == IF prevExtension # Null
              THEN removeGraphChild(S, "extensions", host, prevExtension)
              ELSE S
    IN IF ext = Null
       THEN Result("ok", S1)
       ELSE LET r == GraphLinkNoLiveCheck(S1, Range(S.links), extensionName[ext], host, ext)
            IN IF r.err # "ok"
               THEN Result(r.err, S1)
               ELSE Result("ok", addGraphChild(r.S, "extensions", host, r.link))

setExtensionDetachPrev(S, host, ctor, ext) ==
    LET prevExtension == getExtension(S, host, ctor)
        S1 == IF prevExtension # Null
              THEN unlinkParents(S, prevExtension,
                                 {n \in Nodes : propertyType[n] # "Root"})
              ELSE S
    IN IF ext = Null
       THEN Result("ok", S1)
       ELSE LET r == GraphLink(S1, Range(S.links), extensionName[ext], host, ext)
            IN IF r.err # "ok"
               THEN Result(r.err, S1)
               ELSE Result("ok", addGraphChild(r.S, "extensions", host, r.link))

setExtensionPrepend(S, host, ctor, ext) ==
    LET prevExtension == getExtension(S, host, ctor)
        S1 == IF prevExtension # Null
              THEN removeGraphChild(S, "extensions", host, prevExtension)
              ELSE S
    IN IF ext = Null
       THEN Result("ok", S1)
       ELSE LET r == GraphLink(S1, Range(S.links), extensionName[ext], host, ext)
            IN IF r.err # "ok"
               THEN Result(r.err, S1)
               ELSE Result("ok", [r.S EXCEPT !.extensions[host] = <<r.link>> \o @])

setExtension(S, host, ctor, ext) ==
    LET prevExtension == getExtension(S, host, ctor)
        S1 == IF prevExtension # Null
              THEN removeGraphChild(S, "extensions", host, prevExtension)
              ELSE S
    IN IF ext = Null
       THEN Result("ok", S1)
       ELSE LET r == GraphLink(S1, Range(S.links), extensionName[ext], host, ext)
            IN IF r.err # "ok"
               THEN Result(r.err, S1)
               ELSE Result("ok", addGraphChild(r.S, "extensions", host, r.link))

\* Property.detach(): the predicate handed to disconnectParents
detachFilterAll(n) == TRUE

detachFilter(n) == propertyType[n] # "Root"

\* Property.detach()
detachWithChildren(S, node) ==
    LET r == disconnectParents(S, node, {n \in Nodes : detachFilter(n)})
    IN Result(r.err, disconnectChildren(r.S, node))

detach(S, node) ==
    disconnectParents(S, node, {n \in Nodes : detachFilter(n)})

\* Property.listParents()
listParentsNoRoot(S, node) ==
    SelectSeq(listGraphParents(S, node), LAMBDA p : propertyType[p] # "Root")

listParents(S, node) == listGraphParents(S, node)

\* Property.clone(): the base type throws.
cloneSilent(S, node) == Result("ok", S)

clone(S, node) == Result("NotImplemented", S)

\* ------------------------------------------------------------------ steps
Install(S) ==
    /\ links' = S.links
    /\ extensions' = S.extensions
    /\ refs' = S.refs
    /\ disposed' = S.disposed

Call(op, node, ctor, arg, result) ==
    [op |-> op, node |-> node, ctor |-> ctor, arg |-> arg, result |-> result]

Init ==
    /\ links = <<>>
    /\ extensions = [n \in Nodes |-> <<>>]
    /\ refs = [n \in Nodes |-> <<>>]
    /\ disposed = [n \in Nodes |-> FALSE]
    /\ last = Call("new", Null, Null, Null, "ok")
    /\ pre = Cur

\* A concrete resource type references a child: graph.link, then
\* addGraphChild on its own child list.
Link(parent, child) ==
    LET r == GraphLink(Cur, Range(links), "ref", parent, child)
    IN /\ Install(IF r.err = "ok"
                  THEN addGraphChild(r.S, "refs", parent, r.link)
                  ELSE r.S)
       /\ last' = Call("link", parent, Null, child, r.err)
       /\ pre' = Cur

SetExtension(host, ctor, ext) ==
    LET r == setExtension(Cur, host, ctor, ext)
    IN /\ Install(r.S)
       /\ last' = Call("setExtension", host, ctor, ext, r.err)
       /\ pre' = Cur

Detach(node) ==
    LET r == detach(Cur, node)
    IN /\ Install(r.S)
       /\ last' = Call("detach", node, Null, Null, r.err)
       /\ pre' = Cur

Dispose(node) ==
    LET r == dispose(Cur, node)
    IN /\ Install(r.S)
       /\ last' = Call("dispose", node, Null, Null, r.err)
       /\ pre' = Cur

Clone(node) ==
    LET r == clone(Cur, node)
    IN /\ Install(r.S)
       /\ last' = Call("clone", node, Null, Null, r.err)
       /\ pre' = Cur

\* ------------------------------------------------- extension attachment
\* The references the resource types make here.  Extension properties are
\* reached through their host only, so setExtension alone links them; the
\* node of the other graph is offered to show the rejection.
LinkPairs == {<<"root", "m1">>, <<"m2", "m1">>, <<"m1", "t">>, <<"root", "y">>}
Detachable == {"m1", "x2"}
Disposable == {"m1", "x2"}

Next ==
    \/ \E pc \in LinkPairs : Link(pc[1], pc[2]) /\ Len(links') <= MaxLinks
    \/ \E h \in Hosts, c \in Ctors, e \in ExtNodes \cup {Null} :
           SetExtension(h, c, e) /\ Len(links') <= MaxLinks
    \/ \E n \in Detachable : Detach(n)
    \/ \E n \in Disposable : Dispose(n)

Spec == Init /\ [][Next]_vars

\* ---------------------------------------------------- a shared resource
SharePairs == {<<"root", "t">>, <<"m1", "t">>, <<"m2", "t">>,
               <<"root", "m1">>, <<"m1", "m2">>}
ShareNodes == {"t", "m1"}

NextShare ==
    \/ \E pc \in SharePairs : Link(pc[1], pc[2]) /\ Len(links') <= MaxRefs
    \/ \E n \in ShareNodes : Detach(n)
    \/ \E n \in ShareNodes : Dispose(n)
    \/ \E n \in ShareNodes : Clone(n)

SpecShare == Init /\ [][NextShare]_vars

\* ------------------------------------------- the extensions of one host
ExtOffers == {"x1", "x2", "x3", Null}

NextExt ==
    \/ \E c \in Ctors, e \in ExtOffers :
           SetExtension("m1", c, e) /\ Len(links') <= MaxExts
    \/ \E n \in {"x1"} : Detach(n)
    \/ \E n \in {"x2"} : Dispose(n)

SpecExt == Init /\ [][NextExt]_vars

\* ------------------------------------------------------------- observers
\* The parents of n by the graph index.
ParentSet(S, n) == {l.parent : l \in {x \in Range(S.links) : x.child = n}}

\* The links held by the child lists of p, and by all child lists.
HeldLinks(S, p) == Range(S.extensions[p]) \cup Range(S.refs[p])
AllHeld(S) == UNION {HeldLinks(S, p) : p \in Nodes}

\* The nodes host.listExtensions() returns.
ExtChildren(S, host) == Range(listExtensions(S, host))

\* The links of a sequence that point at n / that do not.
Into(s, n) == SelectSeq(s, LAMBDA l : l.child = n)
NotInto(s, n) == SelectSeq(s, LAMBDA l : l.child # n)

Ran(op) == last.op = op /\ last.result = "ok"

\* ---------------------------------------------------------------- claims

\* C1: after any sequence of setExtension calls (any tokens, any extension
\* nodes or null), no two extension links of one host have children with the
\* same extension identifier.
C1_OneLinkPerIdentifier ==
    \A h \in Nodes : \A i, j \in DOMAIN extensions[h] :
        i # j => extensionName[extensions[h][i].child]
                     # extensionName[extensions[h][j].child]

\* C2: when host.setExtension(token, e1) has just succeeded and
\* host.setExtension(token, e2) follows, e1 and e2 distinct extension nodes
\* of the token's identifier, the host then has exactly one extension link
\* for that identifier, pointing at e2; e1 is no child of the host, is not
\* disposed and does not have the host as a parent.
C2_ReplacementLeavesSecond ==
    \A e2 \in ExtNodes :
        LET h == last.node
            e1 == last.arg
            r == setExtension(Cur, h, last.ctor, e2)
            mine == SelectSeq(r.S.extensions[h],
                              LAMBDA l : extensionName[l.child] = last.ctor)
        IN (/\ Ran("setExtension")
            /\ e1 # Null
            /\ e2 # e1
            /\ extensionName[e1] = last.ctor
            /\ extensionName[e2] = last.ctor
            /\ r.err = "ok")
           => /\ Len(mine) = 1
              /\ mine[1].child = e2
              /\ e1 \notin ExtChildren(r.S, h)
              /\ ~r.S.disposed[e1]
              /\ h \notin ParentSet(r.S, e1)

\* C3: a call that fails leaves the whole graph as it was when the call
\* began: the index, every child list and every disposed flag.
C3_FailedCallChangesNothing ==
    last.result # "ok" => Cur = pre

\* C4: after a successful n.detach(), n.listParents() is exactly the Root
\* parents n had: every link into n from Root survives, in the index and in
\* Root's child lists, and no link into n from another parent does.
C4_DetachKeepsRootParents ==
    Ran("detach") =>
        LET n == last.node
            fromRoot(s) == SelectSeq(s, LAMBDA l :
                               l.child = n /\ propertyType[l.parent] = "Root")
        IN /\ Range(listParents(Cur, n))
                  = {p \in ParentSet(pre, n) : propertyType[p] = "Root"}
           /\ Into(links, n) = fromRoot(pre.links)
           /\ \A p \in Nodes :
                  /\ Into(extensions[p], n) = fromRoot(pre.extensions[p])
                  /\ Into(refs[p], n) = fromRoot(pre.refs[p])

\* C4 witness: t, held by m1, m2 and root, was detached and keeps root alone.
C4_Witness ==
    /\ Ran("detach")
    /\ last.node = "t"
    /\ ParentSet(pre, "t") = {"m1", "m2", "root"}
    /\ listParents(Cur, "t") = <<"root">>

\* C5: a successful n.detach() changes links into n and nothing else: no
\* disposed flag changes, n's own child lists are what they were, no link
\* that points elsewhere is removed or reordered, no link is created, and
\* every child n had still lists n as a parent.
C5_DetachFrame ==
    Ran("detach") =>
        LET n == last.node
        IN /\ disposed = pre.disposed
           /\ ~disposed[n]
           /\ extensions[n] = pre.extensions[n]
           /\ refs[n] = pre.refs[n]
           /\ NotInto(links, n) = NotInto(pre.links, n)
           /\ Range(links) \subseteq Range(pre.links)
           /\ \A p \in Nodes :
                  /\ NotInto(extensions[p], n) = NotInto(pre.extensions[p], n)
                  /\ NotInto(refs[p], n) = NotInto(pre.refs[p], n)
                  /\ HeldLinks(Cur, p) \subseteq HeldLinks(pre, p)
           /\ \A l \in Range(pre.links) :
                  l.parent = n => n \in Range(listParents(Cur, l.child))

\* C5 witness: m1, held by m2 and holding an extension, was detached: the
\* link from m2 is gone and the extension link is still there.
C5_Witness ==
    /\ Ran("detach")
    /\ last.node = "m1"
    /\ "m2" \in ParentSet(pre, "m1")
    /\ "m2" \notin ParentSet(Cur, "m1")
    /\ pre.extensions["m1"] # <<>>
    /\ extensions["m1"] = pre.extensions["m1"]

\* C6: after a successful n.dispose(), n is disposed and no link has n as
\* parent or child, in the index or in any child list: n has no parents, no
\* former child has n as a parent, no host returns n from listExtensions or
\* getExtension.
C6_DisposeSeversBothWays ==
    Ran("dispose") =>
        LET n == last.node
        IN /\ disposed[n]
           /\ \A l \in Range(links) \cup AllHeld(Cur) : l.parent # n /\ l.child # n
           /\ listGraphParents(Cur, n) = <<>>
           /\ \A l \in Range(pre.links) :
                  l.parent = n => n \notin ParentSet(Cur, l.child)
           /\ \A h \in Nodes :
                  /\ n \notin ExtChildren(Cur, h)
                  /\ \A c \in Ctors : getExtension(Cur, h, c) # n

\* C6 witness: m1 was disposed while root still held it and while it held
\* an extension.
C6_Witness ==
    /\ Ran("dispose")
    /\ last.node = "m1"
    /\ "root" \in ParentSet(pre, "m1")
    /\ pre.extensions["m1"] # <<>>
    /\ links = <<>>

\* C7: a call made on a node that is already disposed (setExtension with any
\* value, detach, a second dispose) fails with InvalidState.
C7_DisposedNodeRefusesCalls ==
    (/\ last.op \in {"setExtension", "detach", "dispose"}
     /\ pre.disposed[last.node])
    => last.result = "InvalidState"

\* C8: no link, in the index or in a child list, has a disposed parent or a
\* disposed child.
C8_NoLinkToDisposed ==
    \A l \in Range(links) \cup AllHeld(Cur) :
        ~disposed[l.parent] /\ ~disposed[l.child]

\* C8 witness: m1 had links when it was disposed, another link is alive.
C8_Witness ==
    /\ Ran("dispose")
    /\ last.node = "m1"
    /\ \E l \in Range(pre.links) : l.parent = "m1" \/ l.child = "m1"
    /\ links # <<>>

\* C9: link, and setExtension with a value, fail with InvalidOperation and
\* create no link when the parent or the child is disposed or of another
\* graph than the one that links.
C9_LinkRejectsDisposedOrForeign ==
    LET parent == last.node
        child == last.arg
    IN (/\ last.op \in {"link", "setExtension"}
        /\ child # Null
        /\ \/ pre.disposed[parent] \/ pre.disposed[child]
           \/ graphOf[parent] # ThisGraph \/ graphOf[child] # ThisGraph)
       => /\ last.result = "InvalidOperation"
          /\ Range(links) \subseteq Range(pre.links)
          /\ AllHeld(Cur) \subseteq AllHeld(pre)

\* C9 witness: a live host was given a disposed extension and refused it.
C9_Witness ==
    /\ last.op = "setExtension"
    /\ last.arg = "x2"
    /\ pre.disposed["x2"]
    /\ ~pre.disposed[last.node]
    /\ last.result = "InvalidOperation"

\* C10: when host.setExtension(token, ext) has just succeeded, ext an
\* extension node of the token's identifier, host.getExtension(token) is ext;
\* and after host.setExtension(token, null), getExtension(token) is null,
\* listExtensions() does not contain ext and ext is not disposed.
C10_SetGetRemove ==
    (/\ Ran("setExtension")
     /\ last.arg # Null
     /\ extensionName[last.arg] = last.ctor)
    => LET h == last.node
           ext == last.arg
           r == setExtension(Cur, h, last.ctor, Null)
       IN /\ getExtension(Cur, h, last.ctor) = ext
          /\ r.err = "ok"
          /\ getExtension(r.S, h, last.ctor) = Null
          /\ ext \notin ExtChildren(r.S, h)
          /\ ~r.S.disposed[ext]

\* C11: host.setExtension(token, null) on a live host that has no extension
\* of the token's identifier raises no error and leaves the index, every
\* child list (so listExtensions()) and every disposed flag as they were.
C11_RemoveAbsentIsNoOp ==
    (/\ last.op = "setExtension"
     /\ last.arg = Null
     /\ ~pre.disposed[last.node]
     /\ \A l \in Range(pre.extensions[last.node]) :
            extensionName[l.child] # last.ctor)
    => /\ last.result = "ok"
       /\ Cur = pre
       /\ listExtensions(Cur, last.node) = listExtensions(pre, last.node)

\* C11 witness: token B was removed from a live host that holds an
\* extension of identifier A only.
C11_Witness ==
    /\ last.op = "setExtension"
    /\ last.arg = Null
    /\ last.ctor = "B"
    /\ ~pre.disposed[last.node]
    /\ listExtensions(pre, last.node) = <<"x1">>
    /\ listExtensions(Cur, last.node) = <<"x1">>
    /\ last.result = "ok"

\* C12: linking a node that another parent already holds adds one link and
\* no node: the links that existed are untouched, the child lists of the old
\* and of the new parent hold that very node, the set of nodes and their
\* flags are what they were, and the node lists both parents.
C12_SharingLinksNotCopies ==
    (Ran("link") /\ ParentSet(pre, last.arg) \ {last.node} # {}) =>
        LET p2 == last.node
            c == last.arg
            holders == ParentSet(pre, c) \cup {p2}
        IN /\ Len(links) = Len(pre.links) + 1
           /\ SubSeq(links, 1, Len(pre.links)) = pre.links
           /\ links[Len(links)].parent = p2
           /\ links[Len(links)].child = c
           /\ \A p \in holders : \E l \in HeldLinks(Cur, p) : l.child = c
           /\ DOMAIN disposed = DOMAIN pre.disposed
           /\ disposed = pre.disposed
           /\ Range(listParents(Cur, c)) = holders

\* C12 witness: t, held by m1, was linked by m2 too and lists both.
C12_Witness ==
    /\ Ran("link")
    /\ last.node = "m2"
    /\ last.arg = "t"
    /\ ParentSet(pre, "t") = {"m1"}
    /\ listParents(Cur, "t") = <<"m1", "m2">>
    /\ \E l \in Range(refs["m1"]) : l.child = "t"
    /\ \E l \in Range(refs["m2"]) : l.child = "t"

\* The place in the index of the oldest live link from p to n.
FirstLink(S, p, n) ==
    CHOOSE i \in DOMAIN S.links :
        /\ S.links[i].parent = p /\ S.links[i].child = n
        /\ \A j \in 1..(i - 1) : ~(S.links[j].parent = p /\ S.links[j].child = n)

\* C13: for a live node n, listParents() holds exactly the nodes that hold a
\* link to n (by the index and by the child lists, Root included), each
\* once however many links it holds, in the order in which their links
\* were created.
C13_ListParents ==
    \A n \in Nodes : ~disposed[n] =>
        LET lp == listParents(Cur, n)
        IN /\ Range(lp) = ParentSet(Cur, n)
           /\ Range(lp) = {p \in Nodes : \E l \in HeldLinks(Cur, p) : l.child = n}
           /\ \A i, j \in DOMAIN lp : i # j => lp[i] # lp[j]
           /\ \A i, j \in DOMAIN lp :
                  i < j => FirstLink(Cur, lp[i], n) < FirstLink(Cur, lp[j], n)

\* C13 witness: m1 linked t, then root, then m1 again: three links, two
\* parents, m1 first.
C13_Witness ==
    /\ Len(Into(links, "t")) = 3
    /\ links[1].parent = "m1"
    /\ links[2].parent = "root"
    /\ links[3].parent = "m1"
    /\ listParents(Cur, "t") = <<"m1", "root">>

\* C14: clone() on a Property whose type does not override it fails with
\* NotImplemented and leaves the graph as it was: no link, no node, no flag
\* changes.
C14_CloneNotImplemented ==
    last.op = "clone" =>
        /\ last.result = "NotImplemented"
        /\ Cur = pre
        /\ DOMAIN disposed = DOMAIN pre.disposed

\* C14 witness: clone was called on m1 while it held t, and failed.
C14_Witness ==
    /\ last.op = "clone"
    /\ last.node = "m1"
    /\ last.result = "NotImplemented"
    /\ "m1" \in ParentSet(Cur, "t")
    /\ links = pre.links

\* C15: a node becomes disposed only by a successful dispose() call made on
\* that node: no detach, setExtension, link or dispose of another node sets
\* a disposed flag, even when it removes the last link into the node.
C15_DisposalIsCallerInitiated ==
    \A n \in Nodes :
        (disposed[n] /\ ~pre.disposed[n]) => (Ran("dispose") /\ last.node = n)

\* C15 witness: a setExtension call removed the last link into x1 (by
\* removal or by replacement) and x1 is not disposed.
C15_Witness ==
    /\ Ran("setExtension")
    /\ ParentSet(pre, "x1") # {}
    /\ ParentSet(Cur, "x1") = {}
    /\ last.arg # "x1"
    /\ ~disposed["x1"]

\* C16: a node that was disposed when a call began is disposed when the call
\* ends, whatever the call, and is then neither the parent nor the child of
\* a link, in the index or in a child list.  (pre is the graph of the state
\* before, so this is "disposed now, disposed and unlinked next" for every
\* step, hence for every later state.)
C16_DisposalIsIrreversible ==
    \A n \in Nodes : pre.disposed[n] =>
        /\ disposed[n]
        /\ \A l \in Range(links) \cup AllHeld(Cur) : l.parent # n /\ l.child # n

\* C16 witness: after m1 was disposed, an extension was offered to it and
\* later calls followed; m1 is still disposed.
C16_Witness ==
    /\ pre.disposed["m1"]
    /\ last.op = "setExtension"
    /\ last.node = "m1"
    /\ last.arg = "x1"
    /\ disposed["m1"]
    /\ links # <<>>

\* The children of a sequence of links.
Children(s) == [i \in DOMAIN s |-> s[i].child]

\* C17: listExtensions() is in the order in which the current extension
\* links were created; a successful setExtension keeps the other entries in
\* their order, drops the entries of the extension it found for the token,
\* and puts the new extension, if any, at the end, under a new link.
C17_ExtensionOrder ==
    /\ \A h \in Nodes :
           extensions[h] = SelectSeq(links, LAMBDA l : l \in Range(extensions[h]))
    /\ Ran("setExtension") =>
           LET h == last.node
               prev == getExtension(pre, h, last.ctor)
               kept == SelectSeq(pre.extensions[h], LAMBDA l : l.child # prev)
               now == listExtensions(Cur, h)
           IN IF last.arg = Null
              THEN now = Children(kept)
              ELSE /\ now = Append(Children(kept), last.arg)
                   /\ extensions[h][Len(now)] \notin Range(pre.links)
                   /\ links[Len(links)] = extensions[h][Len(now)]

\* C17 witness: with x1 (A) and x3 (B) attached in that order, x2 replaced
\* x1: x3 is now first and x2 last.
C17_Witness ==
    /\ Ran("setExtension")
    /\ last.node = "m1"
    /\ last.ctor = "A"
    /\ last.arg = "x2"
    /\ listExtensions(pre, "m1") = <<"x1", "x3">>
    /\ listExtensions(Cur, "m1") = <<"x3", "x2">>

\* C18: in every state p holds a link to c in one of its child lists exactly
\* when c.listParents() contains p; and after a successful ext.detach() or
\* ext.dispose() on an attached extension node, every former host returns
\* null from getExtension(token of ext) and no longer lists ext in
\* listExtensions().
C18_ViewsAgree ==
    /\ \A p, c \in Nodes :
           (\E l \in HeldLinks(Cur, p) : l.child = c)
               <=> p \in Range(listParents(Cur, c))
    /\ (last.op \in {"detach", "dispose"} /\ last.result = "ok"
            /\ last.node \in ExtNodes)
       => \A h \in Nodes :
              last.node \in ExtChildren(pre, h) =>
                  /\ getExtension(Cur, h, extensionName[last.node]) = Null
                  /\ last.node \notin ExtChildren(Cur, h)

\* C19: setExtension is idempotent: right after a successful
\* host.setExtension(token, ext) with ext non-null of that token, calling it
\* again with the same arguments succeeds and leaves what the host shows
\* (its listExtensions, its getExtension per token, its listParents) as it
\* was, with exactly one link from host to ext and ext listing host as a
\* parent exactly once.
Shown(S, host) ==
    [ exts    |-> listExtensions(S, host),
      got     |-> [c \in Ctors |-> getExtension(S, host, c)],
      parents |-> listParents(S, host) ]

C19_SetExtensionIdempotent ==
    (Ran("setExtension") /\ last.arg # Null
        /\ extensionName[last.arg] = last.ctor)
    => LET again == setExtension(Cur, last.node, last.ctor, last.arg)
       IN  /\ again.err = "ok"
           /\ Shown(again.S, last.node) = Shown(Cur, last.node)
           /\ Cardinality({i \in DOMAIN again.S.links :
                  /\ again.S.links[i].parent = last.node
                  /\ again.S.links[i].child = last.arg}) = 1
           /\ Cardinality({i \in DOMAIN listParents(again.S, last.arg) :
                  listParents(again.S, last.arg)[i] = last.node}) = 1

\* C20: a successful host.setExtension(token, e) changes only that host's
\* links: every other node keeps its extension list and reference list, every
\* extension it held still lists it as a parent, and its getExtension answers
\* are what they were, also when the replaced or removed extension is
\* attached to it as well.
C20_SetExtensionFrame ==
    Ran("setExtension") =>
        \A b \in Nodes \ {last.node} :
            /\ extensions[b] = pre.extensions[b]
            /\ refs[b] = pre.refs[b]
            /\ \A e \in ExtChildren(pre, b) : b \in Range(listParents(Cur, e))
            /\ \A c \in Ctors : getExtension(Cur, b, c) = getExtension(pre, b, c)

\* x1 was attached to m1 and m2; m1 replaced or removed it; m2 still has it.
C20_Witness ==
    /\ Ran("setExtension") /\ last.node = "m1" /\ last.ctor = "A"
    /\ last.arg # "x1"
    /\ "x1" \in ExtChildren(pre, "m1") /\ "x1" \in ExtChildren(pre, "m2")
    /\ "x1" \notin ExtChildren(Cur, "m1")
    /\ getExtension(Cur, "m2", "A") = "x1"
    /\ "m2" \in ParentSet(Cur, "x1")
====
